---- MODULE Spec2Model ----
(***************************************************************************)
(* Model of subf (src/main.py): validate a domain, fetch certificate       *)
(* records from crt.sh, normalise the names, write them sorted to a file.  *)
(*                                                                         *)
(* A Python str is a sequence of one-character strings.  Other Python      *)
(* values are tagged records (None, Str(s), Missing for an absent key).    *)
(***************************************************************************)
EXTENDS Integers, Sequences, FiniteSets, TLC

VARIABLES
    pc,          \* position of main(): "start","fetch","got","open","writing","written",
                 \* "done","raised";
                 \* in a function-level specification, the name of the function applied
    Progress,    \* TRUE when the rich import succeeded (main.py:8-14)
    domain,      \* args.domain
    output,      \* args.output: None or Str(name)
    save_path,   \* Path.cwd() / output_file, as the name relative to cwd
    resp,        \* what the single HTTP request produced
    data,        \* the value get_crt returned
    subdomains,  \* the set process_data returned
    todo,        \* lines write_subs_file still has to write (sorted)
    buffer,      \* what f.write has put in the file object's buffer, not yet in the file
    file,        \* the file at save_path: NoFile or File(content)
    prior,       \* what that path held before the run
    opened,      \* number of open(..., 'w') calls made
    requests,    \* number of HTTP GET requests issued
    out,         \* status messages printed, in order
    arg,         \* input of the function under check (function-level specifications)
    ret,         \* its result
    called       \* whether it has been applied

vars == <<pc, Progress, domain, output, save_path, resp, data, subdomains, todo,
          buffer, file, prior, opened, requests, out, arg, ret, called>>

mainVars == <<pc, Progress, domain, output, save_path, resp, data, subdomains, todo,
              buffer, file, prior, opened, requests, out>>

fnVars == <<arg, ret, called>>

----------------------------------------------------------------------------
(* Bounds *)

MaxLen == 6        \* longest raw candidate string given to clean_subd
MaxDomLen == 5     \* longest string given to is_valid_domain
MaxParts == 3      \* number of pieces a command-line domain is built from
MaxRecords == 2    \* longest record list in a response body
MaxTok == 2        \* number of names joined in one name_value

----------------------------------------------------------------------------
(* Python values *)

None == [kind |-> "None"]
Missing == [kind |-> "missing"]
Str(s) == [kind |-> "str", val |-> s]

\* truth value of a str-or-None, as `if not subdomain` / `if common_name` use it
Truthy(v) == v.kind = "str" /\ v.val # <<>>

\* dict.get(key, default) on a record whose absent keys hold Missing
Get(d, key, default) == IF d[key] = Missing THEN default ELSE d[key]

----------------------------------------------------------------------------
(* Strings *)

StringsUpTo(A, n) == UNION {[1..k -> A] : k \in 0..n}

\* s[n:]
SliceFrom(s, n) == IF n >= Len(s) THEN <<>> ELSE SubSeq(s, n + 1, Len(s))

\* s.startswith(p)
startswith(s, p) == Len(s) >= Len(p) /\ SubSeq(s, 1, Len(p)) = p

\* the ASCII whitespace str.strip() removes
Whitespace == {" ", "\t", "\n", "\r", "\f"}

RECURSIVE lstrip(_)
lstrip(s) == IF s # <<>> /\ Head(s) \in Whitespace THEN lstrip(Tail(s)) ELSE s

RECURSIVE rstrip(_)
rstrip(s) ==
    IF s # <<>> /\ s[Len(s)] \in Whitespace THEN rstrip(SubSeq(s, 1, Len(s) - 1)) ELSE s

\* s.strip()
strip(s) == rstrip(lstrip(s))

\* s.split('\n'): the pieces between newlines, empty pieces kept
RECURSIVE split(_)
split(s) ==
    IF \A i \in 1..Len(s) : s[i] # "\n" THEN <<s>>
    ELSE LET i == CHOOSE k \in 1..Len(s) : s[k] = "\n" /\ \A j \in 1..(k - 1) : s[j] # "\n"
         IN <<SubSeq(s, 1, i - 1)>> \o split(SliceFrom(s, i))

\* s.replace(old, ''): every non-overlapping occurrence, left to right
RECURSIVE replace(_, _)
replace(s, old) ==
    IF s = <<>> THEN <<>>
    ELSE IF startswith(s, old) THEN replace(SliceFrom(s, Len(old)), old)
    ELSE <<Head(s)>> \o replace(Tail(s), old)

\* the characters of the model in code-point order; Ord is order-isomorphic to ord()
Ascii == <<"\t", "\n", "\f", "\r", " ", "*", "-", ".", "/", "0", "1", ":", "Z",
           "a", "b", "c", "d", "e", "i", "l", "m", "n", "o", "p", "s", "t", "u", "w", "x">>

Ord(c) == CHOOSE i \in 1..Len(Ascii) : Ascii[i] = c

\* a < b on str: code-point lexicographic order
RECURSIVE LexLess(_, _)
LexLess(a, b) ==
    IF b = <<>> THEN FALSE
    ELSE IF a = <<>> THEN TRUE
    ELSE IF Head(a) = Head(b) THEN LexLess(Tail(a), Tail(b))
    ELSE Ord(Head(a)) < Ord(Head(b))

\* sorted(S) with the order reversed
RECURSIVE sorted_Descending(_)
sorted_Descending(S) ==
    IF S = {} THEN <<>>
    ELSE LET m == CHOOSE x \in S : \A y \in S \ {x} : LexLess(y, x)
         IN <<m>> \o sorted_Descending(S \ {m})

\* sorted(S) for a set of str
RECURSIVE sorted(_)
sorted(S) ==
    IF S = {} THEN <<>>
    ELSE LET m == CHOOSE x \in S : \A y \in S \ {x} : LexLess(x, y)
         IN <<m>> \o sorted(S \ {m})

----------------------------------------------------------------------------
(* is_valid_domain: re.match(r'^(?:[a-zA-Z0-9-]+\.)+[a-zA-Z]{2,}$', domain) *)

Letters == {"a", "b", "c", "d", "e", "i", "l", "m", "n", "o", "p", "s", "t", "u", "w", "x", "Z"}
Digits == {"0", "1"}

\* [a-zA-Z0-9-]
InGroupClass(c) == c \in Letters \cup Digits \cup {"-"}

\* [a-zA-Z]
InLabelClass(c) == c \in Letters

(* The pattern as an automaton.  g0: a group must start; g: inside a group;  *)
(* d: a group just ended with its dot; t1: one tail letter; t2: two or more. *)
ReStep(q, c) ==
    CASE q = "g0" -> IF InGroupClass(c) THEN {"g"} ELSE {}
      [] q = "g"  -> (IF InGroupClass(c) THEN {"g"} ELSE {}) \cup (IF c = "." THEN {"d"} ELSE {})
      [] q = "d"  -> (IF InGroupClass(c) THEN {"g"} ELSE {}) \cup (IF InLabelClass(c) THEN {"t1"} ELSE {})
      [] q = "t1" -> IF InLabelClass(c) THEN {"t2"} ELSE {}
      [] q = "t2" -> IF InLabelClass(c) THEN {"t2"} ELSE {}

RECURSIVE ReRun(_, _)
ReRun(Q, s) ==
    IF s = <<>> THEN Q
    ELSE ReRun(UNION {ReStep(q, Head(s)) : q \in Q}, Tail(s))

\* '$' without re.MULTILINE: at the end of the string, or just before a final newline
ReDollar(s, n) == n = Len(s) \/ (n = Len(s) - 1 /\ s[Len(s)] = "\n")

is_valid_domain(d) ==
    \E n \in 0..Len(d) : ReDollar(d, n) /\ "t2" \in ReRun({"g0"}, SubSeq(d, 1, n))

----------------------------------------------------------------------------
(* clean_subd *)

clean_subd(subdomain) ==
    IF ~Truthy(subdomain) THEN <<>>
    ELSE LET a == strip(subdomain.val)
             b == IF startswith(a, <<"*">>) THEN SliceFrom(a, 2) ELSE a
             c == IF startswith(b, <<"w", "w", "w", ".">>) THEN SliceFrom(b, 4) ELSE b
         IN c

----------------------------------------------------------------------------
(* process_data *)

\* the loop body without the split of a multi-valued name_value
ProcessRecord_NoSplit(acc, d) ==
    acc \cup ({clean_subd(Get(d, "common_name", Str(<<>>))),
               clean_subd(Get(d, "name_value", Str(<<>>)))} \ {<<>>})

\* one iteration of the loop over datas (main.py:86-101)
ProcessRecord(acc, d) ==
    LET common_name == clean_subd(Get(d, "common_name", Str(<<>>)))
        acc1 == IF common_name # <<>> THEN acc \cup {common_name} ELSE acc
        name_value == Get(d, "name_value", Str(<<>>)).val
        hasNewline == \E i \in 1..Len(name_value) : name_value[i] = "\n"
        names == split(name_value)
        cleaned == clean_subd(Str(name_value))
    IN IF hasNewline
       THEN acc1 \cup {c \in {clean_subd(Str(names[i])) : i \in 1..Len(names)} : c # <<>>}
       ELSE IF cleaned # <<>> THEN acc1 \cup {cleaned} ELSE acc1

RECURSIVE ProcessFrom(_, _)
ProcessFrom(acc, datas) ==
    IF datas = <<>> THEN acc
    ELSE ProcessFrom(ProcessRecord(acc, Head(datas)), Tail(datas))

process_data(datas) == ProcessFrom({}, datas)

----------------------------------------------------------------------------
(* get_crt *)

\* parsed JSON bodies: an array of records, null, a non-empty object, or no JSON at all
JsonArray(items) == [json |-> "array", items |-> items]
JsonNull == [json |-> "null", items |-> <<>>]
JsonObject == [json |-> "object", items |-> <<>>]
NotJson == [json |-> "invalid", items |-> <<>>]

\* `if datas:` on a parsed body
JsonTruthy(b) == (b.json = "array" /\ b.items # <<>>) \/ b.json = "object"

Timeout == [kind |-> "timeout", status |-> 0, body |-> NotJson]
TransportError == [kind |-> "error", status |-> 0, body |-> NotJson]
Http(st, b) == [kind |-> "http", status |-> st, body |-> b]
NoResponse == [kind |-> "none", status |-> 0, body |-> NotJson]

\* get_crt without the status_code test
get_crt_AnyStatus(r) ==
    IF r.kind = "timeout" THEN [value |-> None, log |-> <<"Request timed out">>]
    ELSE IF r.kind = "error" \/ r.body.json = "invalid" THEN [value |-> None, log |-> <<"Error">>]
    ELSE IF JsonTruthy(r.body) THEN [value |-> r.body, log |-> <<>>]
    ELSE [value |-> None, log |-> <<>>]

\* the return value of get_crt and what it prints, for the outcome r of s.get
get_crt(r) ==
    IF r.kind = "timeout" THEN [value |-> None, log |-> <<"Request timed out">>]
    ELSE IF r.kind = "error" THEN [value |-> None, log |-> <<"Error">>]
    ELSE IF r.status = 200
         THEN IF r.body.json = "invalid" THEN [value |-> None, log |-> <<"Error">>]
              ELSE IF JsonTruthy(r.body) THEN [value |-> r.body, log |-> <<>>]
              ELSE [value |-> None, log |-> <<>>]
         ELSE [value |-> None, log |-> <<>>]

----------------------------------------------------------------------------
(* Files *)

NoFile == [exists |-> FALSE, content |-> <<>>]
File(c) == [exists |-> TRUE, content |-> c]

\* the default output name and the -o override (main.py:140)
Suffix == <<"-", "s", "u", "b", "d", "o", "m", "a", "i", "n", "s", ".", "t", "x", "t">>
DotCom == <<".", "c", "o", "m">>

output_file(d, o) == IF Truthy(o) THEN o.val ELSE replace(d, DotCom) \o Suffix

----------------------------------------------------------------------------
(* Inputs *)

RECURSIVE Flatten(_)
Flatten(ss) == IF ss = <<>> THEN <<>> ELSE Head(ss) \o Flatten(Tail(ss))

\* every concatenation of at most n tokens
TokenStrings(T, n) == {Flatten(ts) : ts \in StringsUpTo(T, n)}

\* command-line domains
DomainPieces == {<<"a">>, DotCom, <<".", "a", "u">>, <<"\n">>, <<":">>}
Domains == TokenStrings(DomainPieces, MaxParts)

OutName == <<"o", ".", "t", "x", "t">>
Outputs == {None, Str(OutName)}

OldContent == <<"o", "l", "d", "\n">>
Priors == {NoFile, File(<<>>), File(OldContent)}

Example == <<"e", "x", "a", "m", "p", "l", "e", ".", "c", "o", "m">>
Www == <<"w", "w", "w", ".">>
StarApi == <<"*", ".", "a", "p", "i", ".">>

Rec(cn, nv) == [common_name |-> cn, name_value |-> nv]

\* certificate records the log service answers with in the pipeline specification
MainRecords ==
    { Rec(Str(Example), Str(Www \o Example \o <<"\n">> \o StarApi \o Example)),
      Rec(Str(<<>>), Str(<<>>)),
      Rec(None, Str(<<"x", ".", "i", "o">>)),
      Rec(Missing, Str(StarApi \o Example)),
      Rec(Str(<<"a", "\n", "b">>), Missing) }

Bodies == {JsonArray(items) : items \in StringsUpTo(MainRecords, MaxRecords)}
              \cup {JsonNull, JsonObject, NotJson}

Responses == {Timeout, TransportError} \cup {Http(st, b) : st \in {200, 404}, b \in Bodies}

----------------------------------------------------------------------------
(* main *)

Init ==
    /\ pc = "start"
    /\ Progress \in BOOLEAN
    /\ domain \in Domains
    /\ output \in Outputs
    /\ save_path = <<>>
    /\ resp = NoResponse
    /\ data = None
    /\ subdomains = {}
    /\ todo = <<>>
    /\ buffer = <<>>
    /\ prior \in Priors
    /\ file = prior
    /\ opened = 0
    /\ requests = 0
    /\ out = <<>>
    /\ arg = <<>> /\ ret = <<>> /\ called = FALSE

\* Validate without the early return: the invalid domain is reported, the run goes on
Validate_NoReturn ==
    /\ pc = "start"
    /\ out' = IF is_valid_domain(domain) THEN out ELSE Append(out, "not a valid domain name")
    /\ save_path' = output_file(domain, output)
    /\ pc' = "fetch"
    /\ UNCHANGED <<buffer, Progress, domain, output, resp, data, subdomains, todo, file, prior,
                   opened, requests, fnVars>>

\* main.py:131-141: validate the domain, choose the output file
Validate ==
    /\ pc = "start"
    /\ IF ~is_valid_domain(domain)
       THEN /\ out' = Append(out, "not a valid domain name")
            /\ pc' = "done"
            /\ UNCHANGED save_path
       ELSE /\ save_path' = output_file(domain, output)
            /\ pc' = "fetch"
            /\ UNCHANGED out
    /\ UNCHANGED <<buffer, Progress, domain, output, resp, data, subdomains, todo, file, prior,
                   opened, requests, fnVars>>

\* the one request get_crt makes and what main receives from it
Fetch(announce) ==
    \E r \in Responses :
        /\ resp' = r
        /\ requests' = requests + 1
        /\ data' = get_crt(r).value
        /\ out' = out \o announce \o get_crt(r).log
        /\ pc' = "got"
        /\ UNCHANGED <<buffer, Progress, domain, output, save_path, subdomains, todo, file, prior,
                       opened, fnVars>>

\* main.py:144-149: with the progress display
FetchRich == pc = "fetch" /\ Progress /\ Fetch(<<>>)

\* main.py:158-160: plain output
FetchPlain == pc = "fetch" /\ ~Progress /\ Fetch(<<"Fetching subdomains">>)

\* main.py:150,155-156 and 161,165-166: `if data:` is false
NoResults ==
    /\ pc = "got"
    /\ data = None
    /\ out' = Append(out, "No results found")
    /\ pc' = "done"
    /\ UNCHANGED <<buffer, Progress, domain, output, save_path, resp, data, subdomains, todo, file,
                   prior, opened, requests, fnVars>>

\* main.py:151 and 162: process_data(data); a body that is not a list of records raises
Process ==
    /\ pc = "got"
    /\ data # None
    /\ IF data.json = "array"
       THEN subdomains' = process_data(data.items) /\ pc' = "open"
       ELSE pc' = "raised" /\ UNCHANGED subdomains
    /\ UNCHANGED <<buffer, Progress, domain, output, save_path, resp, data, todo, file, prior,
                   opened, requests, out, fnVars>>

\* main.py:113-114: open(file_to_save, 'w') creates or truncates; sorted() orders the lines
Open ==
    /\ pc = "open"
    /\ opened' = opened + 1
    /\ file' = File(<<>>)
    /\ buffer' = <<>>
    /\ todo' = sorted(subdomains)
    /\ pc' = "writing"
    /\ UNCHANGED <<Progress, domain, output, save_path, resp, data, subdomains, prior,
                   requests, out, fnVars>>

\* main.py:113: open raises OSError, nothing is touched
OpenFails ==
    /\ pc = "open"
    /\ opened' = opened + 1
    /\ pc' = "raised"
    /\ UNCHANGED <<buffer, Progress, domain, output, save_path, resp, data, subdomains, todo,
                   file, prior, requests, out, fnVars>>

\* main.py:115: f.write(subdomain + '\n') fills the buffer of the file object; the
\* lines of the model are far shorter than that buffer, so the file itself is
\* still empty at every write
WriteLine ==
    /\ pc = "writing"
    /\ todo # <<>>
    /\ buffer' = buffer \o Head(todo) \o <<"\n">>
    /\ todo' = Tail(todo)
    /\ UNCHANGED <<pc, Progress, domain, output, save_path, resp, data, subdomains, file,
                   prior, opened, requests, out, fnVars>>

\* main.py:113: leaving the with-block closes the file, which flushes the buffer
Close ==
    /\ pc = "writing"
    /\ todo = <<>>
    /\ file' = File(file.content \o buffer)
    /\ buffer' = <<>>
    /\ pc' = "written"
    /\ UNCHANGED <<Progress, domain, output, save_path, resp, data, subdomains, todo, prior,
                   opened, requests, out, fnVars>>

\* main.py:113: the flush on close raises OSError after k bytes of the buffer
\* reached the file (disk full, size limit); the exception leaves main
CloseFails ==
    /\ pc = "writing"
    /\ todo = <<>>
    /\ \E k \in 0..(Len(buffer) - 1) :
           file' = File(file.content \o SubSeq(buffer, 1, k))
    /\ buffer' = <<>>
    /\ pc' = "raised"
    /\ UNCHANGED <<Progress, domain, output, save_path, resp, data, subdomains, todo, prior,
                   opened, requests, out, fnVars>>

\* main.py:152-154 and 163-164: write_subs_file returned, the count is reported
Report ==
    /\ pc = "written"
    /\ out' = Append(out, "Found")
    /\ pc' = "done"
    /\ UNCHANGED <<buffer, Progress, domain, output, save_path, resp, data, subdomains, todo,
                   file, prior, opened, requests, fnVars>>

Next ==
    \/ Validate
    \/ FetchRich
    \/ FetchPlain
    \/ NoResults
    \/ Process
    \/ Open
    \/ OpenFails
    \/ WriteLine
    \/ Close
    \/ CloseFails
    \/ Report

Spec == Init /\ [][Next]_vars

----------------------------------------------------------------------------
(* Function-level specifications: the input is drawn in Init, the action   *)
(* applies the function once.                                              *)

IdleMain ==
    /\ Progress = FALSE /\ domain = <<>> /\ output = None /\ save_path = <<>>
    /\ resp = NoResponse /\ data = None /\ subdomains = {} /\ todo = <<>> /\ buffer = <<>>
    /\ prior = NoFile /\ file = NoFile /\ opened = 0 /\ requests = 0 /\ out = <<>>

CleanAlphabet == {" ", "*", ".", "w", "a"}

InitClean ==
    /\ pc = "clean_subd" /\ IdleMain
    /\ arg \in {None} \cup {Str(s) : s \in StringsUpTo(CleanAlphabet, MaxLen)}
    /\ ret = <<>> /\ called = FALSE

CallClean ==
    /\ pc = "clean_subd" /\ ~called
    /\ ret' = clean_subd(arg)
    /\ called' = TRUE
    /\ UNCHANGED <<mainVars, arg>>

SpecClean == InitClean /\ [][CallClean]_vars

DomAlphabet == {"a", "Z", "0", "-", ".", "\n", ":"}

InitValid ==
    /\ pc = "is_valid_domain" /\ IdleMain
    /\ arg \in StringsUpTo(DomAlphabet, MaxDomLen)
    /\ ret = FALSE /\ called = FALSE

CallValid ==
    /\ pc = "is_valid_domain" /\ ~called
    /\ ret' = is_valid_domain(arg)
    /\ called' = TRUE
    /\ UNCHANGED <<mainVars, arg>>

SpecValid == InitValid /\ [][CallValid]_vars

\* record fields: common_name absent, null or a string; name_value a string
CnValues ==
    {Missing, None, Str(Www \o <<"a">>), Str(<<"*", ".", "*", ".", "a">>)}

\* name_value: at most MaxTok names joined by newlines
RECURSIVE Join(_)
Join(names) ==
    IF Len(names) <= 1 THEN Flatten(names)
    ELSE Head(names) \o <<"\n">> \o Join(Tail(names))

NvNames == {<<>>, <<"a">>, <<"*", ".", "a">>, <<" ", "b", " ">>}
NvValues == {Str(Join(names)) : names \in StringsUpTo(NvNames, MaxTok)}
ProcRecords == {Rec(cn, nv) : cn \in CnValues, nv \in NvValues}

InitProc ==
    /\ pc = "process_data" /\ IdleMain
    /\ arg \in StringsUpTo(ProcRecords, MaxRecords)
    /\ ret = {} /\ called = FALSE

CallProc ==
    /\ pc = "process_data" /\ ~called
    /\ ret' = process_data(arg)
    /\ called' = TRUE
    /\ UNCHANGED <<mainVars, arg>>

SpecProc == InitProc /\ [][CallProc]_vars

----------------------------------------------------------------------------
(* Reference definitions the properties are stated with *)

Last(q) == q[Len(q)]

endswith(s, p) == Len(s) >= Len(p) /\ SubSeq(s, Len(s) - Len(p) + 1, Len(s)) = p

\* s with leading and trailing whitespace trimmed: its longest substring that
\* neither starts nor ends with whitespace
RefTrim(s) ==
    IF \A i \in 1..Len(s) : s[i] \in Whitespace THEN <<>>
    ELSE LET lo == CHOOSE i \in 1..Len(s) :
                       s[i] \notin Whitespace /\ \A j \in 1..(i - 1) : s[j] \in Whitespace
             hi == CHOOSE i \in 1..Len(s) :
                       s[i] \notin Whitespace /\ \A j \in (i + 1)..Len(s) : s[j] \in Whitespace
         IN SubSeq(s, lo, hi)

\* the cleaning rule: trim, drop a leading "*.", then drop a leading "www."
RefClean(s) ==
    LET a == RefTrim(s)
        b == IF startswith(a, <<"*", ".">>) THEN SubSeq(a, 3, Len(a)) ELSE a
    IN IF startswith(b, Www) THEN SubSeq(b, 5, Len(b)) ELSE b

\* groups of [letter|digit|hyphen]+ each followed by a dot, then >= 2 letters, nothing else
RefValid(s) ==
    \E d \in 1..Len(s) :
        /\ s[d] = "."
        /\ Len(s) - d >= 2
        /\ \A i \in (d + 1)..Len(s) : InLabelClass(s[i])
        /\ s[1] # "."
        /\ \A i \in 1..d : InGroupClass(s[i]) \/ s[i] = "."
        /\ \A i \in 1..(d - 1) : ~(s[i] = "." /\ s[i + 1] = ".")

\* the newline-delimited pieces of s
RefSegments(s) ==
    {SubSeq(s, i, j) : <<i, j>> \in
        {<<i, j>> \in (1..(Len(s) + 1)) \X (0..Len(s)) :
            /\ i <= j + 1
            /\ \A k \in i..j : s[k] # "\n"
            /\ (i = 1 \/ s[i - 1] = "\n")
            /\ (j = Len(s) \/ s[j + 1] = "\n")}}

\* the raw candidates of one record
RefCandidates(d) ==
    (IF d.common_name.kind = "str" THEN {d.common_name.val} ELSE {})
        \cup (IF d.name_value.kind = "str" THEN RefSegments(d.name_value.val) ELSE {})

RefProcess(datas) ==
    {clean_subd(Str(c)) : c \in UNION {RefCandidates(datas[i]) : i \in 1..Len(datas)}} \ {<<>>}

\* a precedes b in lexicographic order of code points
RefLess(a, b) ==
    \E k \in 1..Len(b) :
        /\ k <= Len(a) + 1
        /\ \A j \in 1..(k - 1) : a[j] = b[j]
        /\ (k = Len(a) + 1 \/ Ord(a[k]) < Ord(b[k]))

\* the text holding the elements of S in ascending order, each followed by one newline
RefContent(S) ==
    LET n == Cardinality(S)
        at(i) == CHOOSE e \in S : Cardinality({x \in S : RefLess(x, e)}) = i - 1
    IN Flatten([i \in 1..n |-> at(i) \o <<"\n">>])

\* d without one trailing ".com"
RefStem(d) == IF endswith(d, DotCom) THEN SubSeq(d, 1, Len(d) - Len(DotCom)) ELSE d

\* the request did not give status 200 with a non-empty parsed body
Unusable(r) ==
    \/ r.kind \in {"timeout", "error"}
    \/ r.kind = "http" /\ r.status # 200
    \/ r.kind = "http" /\ r.body \in {NotJson, JsonNull, JsonArray(<<>>)}

ExampleRecords == <<Rec(Str(Example), Str(Www \o Example \o <<"\n">> \o StarApi \o Example))>>
ExampleFile == <<"a", "p", "i", ".">> \o Example \o <<"\n">> \o Example \o <<"\n">>

----------------------------------------------------------------------------
(* Properties *)

\* C1: a run whose domain fails is_valid_domain issues no request, opens or
\* changes no file, raises nothing, and ends having reported the invalid domain.
C1_InvalidDomainStopsEarly ==
    (pc \in {"start", "fetch", "got", "open", "writing", "written", "done", "raised"}
        /\ ~is_valid_domain(domain))
    => /\ requests = 0
       /\ opened = 0
       /\ file = prior
       /\ pc \in {"start", "done"}
       /\ (pc = "done" => out = <<"not a valid domain name">>)

C1_Witness == pc = "done" /\ ~is_valid_domain(domain) /\ prior = File(OldContent)

\* C2: when the request ends in anything but status 200 with a non-empty parsed
\* body, get_crt returns None, nothing is raised, the output file is never opened
\* or changed, and main ends by reporting that no results were found.
C2_FailedRequestIsNoResults ==
    (pc \in {"got", "open", "writing", "written", "done", "raised"} /\ Unusable(resp))
    => /\ data = None
       /\ pc \in {"got", "done"}
       /\ opened = 0
       /\ file = prior
       /\ (pc = "done" => Last(out) = "No results found")

C2_Witness ==
    /\ pc = "done"
    /\ resp.kind = "http" /\ resp.status = 404
    /\ resp.body.json = "array" /\ resp.body.items # <<>>
    /\ prior = File(OldContent)

\* C3: when the records yield an empty subdomain set, main reports "no results
\* found" and writes no file.
C3_EmptySetIsNoResults ==
    (pc = "done" /\ data # None /\ subdomains = {})
    => /\ opened = 0
       /\ file = prior
       /\ Last(out) = "No results found"

\* C4: after a failed write the file holds its complete prior content (or is
\* absent), or the complete new sorted content, never a truncated file or a
\* proper prefix of the new content.
C4_WriteAllOrNothing ==
    (pc = "raised" /\ opened > 0)
    => \/ file = prior
       \/ file = File(RefContent(subdomains))

\* C5: every string process_data returns is non-empty, does not begin with "*."
\* or "www.", and has no leading or trailing whitespace.
C5_ResultStringsAreClean ==
    (pc = "process_data" /\ called)
    => \A s \in ret :
          /\ s # <<>>
          /\ ~startswith(s, <<"*", ".">>)
          /\ ~startswith(s, Www)
          /\ s[1] \notin Whitespace
          /\ s[Len(s)] \notin Whitespace

\* C6: process_data returns exactly the non-empty cleaned candidates of the
\* records: each common_name that is a string, and each name_value split on
\* newlines; a null or absent common_name leaves the record's name_value in.
C6_ResultIsCleanedCandidates ==
    (pc = "process_data" /\ called) => ret = RefProcess(arg)

C6_Witness ==
    /\ pc = "process_data" /\ called
    /\ Len(arg) = 2
    /\ arg[1].common_name = None
    /\ arg[1].name_value = Str(<<"a", "\n", " ", "b", " ">>)
    /\ arg[2].common_name = Str(Www \o <<"a">>)
    /\ arg[2].name_value = Str(<<"*", ".", "a", "\n">>)
    /\ ret = {<<"a">>, <<"b">>}

\* C7: clean_subd(s) is the cleaning rule applied to s: trim, drop a leading
\* "*.", then drop a leading "www.".
C7_CleanIsTheRule ==
    (pc = "clean_subd" /\ called /\ arg # None) => ret = RefClean(arg.val)

\* C8: after a successful write the file holds exactly the subdomains in
\* ascending order, each once and followed by one newline, whatever the path held
\* before; for the example record that is api.example.com, example.com.
C8_FileIsTheSortedSet ==
    (pc = "done" /\ opened > 0)
    => /\ file = File(RefContent(subdomains))
       /\ (data.items = ExampleRecords => file.content = ExampleFile)

C8_Witness ==
    /\ pc = "done" /\ opened > 0
    /\ prior = File(OldContent)
    /\ data.items = ExampleRecords
    /\ file.content = ExampleFile

\* C9: is_valid_domain(s) holds exactly when the whole of s is one or more
\* [letter|digit|hyphen]+ groups each followed by a dot, then a label of at
\* least two letters.
C9_ValidIffPattern ==
    (pc = "is_valid_domain" /\ called) => (ret <=> RefValid(arg))

\* C10: without -o, the output name of a valid domain is the domain with one
\* trailing ".com" removed, followed by "-subdomains.txt".
C10_DefaultNameDropsSuffixOnly ==
    (pc \in {"fetch", "got", "open", "writing", "written", "done", "raised"}
        /\ is_valid_domain(domain) /\ output = None)
    => save_path = RefStem(domain) \o Suffix

====
